---- MODULE Spec2Model ----
(***************************************************************************)
(* A model of MCS_Controller_AI2THOR                                       *)
(* (python_api/machine_common_sense/mcs_controller_ai2thor.py): the        *)
(* per-scene state of the controller, its public calls start_scene, step   *)
(* and end_scene, and the functions they are built from.                   *)
(*                                                                         *)
(* Numbers.  Python floats are modelled as integers counting hundredths:   *)
(* 0.5 is 50, 1 is 100, 25.0 is 2500, 180 is 18000.  Every constant below   *)
(* is the source's number times one hundred, and Mul is the product of two *)
(* such numbers.                                                           *)
(*                                                                         *)
(* Python values of mixed type.  A value a caller may pass for a keyword   *)
(* is a record [t, v]: t is "num" (v the number), "str" or "none".         *)
(* Python's None in an optional field is the record None; an optional      *)
(* integer n is Some(n); an optional list l is List(l).                    *)
(*                                                                         *)
(* Scope.  The controller is built with enable_noise = False (lines        *)
(* 208-212 are skipped).  The base class MCS_Controller, whose start_scene, *)
(* step and end_scene the overrides call first, is outside this file and   *)
(* is taken to leave the fields below alone.  The simulator answers every  *)
(* request with a scene event.  Every scene configuration carries the name *)
(* its loader gives it; every action is a string.                          *)
(***************************************************************************)
EXTENDS Integers, Sequences, FiniteSets, TLC

None == [none |-> TRUE]
Some(n) == [v |-> n]
List(l) == [list |-> l]

NumV(n) == [t |-> "num", v |-> n]
StrV == [t |-> "str", v |-> 0]
NoneV == [t |-> "none", v |-> 0]

\* Python's {} (a dict is a function whose domain is its keys).
EmptyDict == [k \in {} |-> 0]

Range(s) == {s[i] : i \in DOMAIN s}

(***************************************************************************)
(* Class constants, lines 24-74.                                           *)
(***************************************************************************)
\* Line 24: MCS_Action's values.  The enum is not part of the source at hand;
\* these are the identifiers the controller and the specification name.
ACTION_LIST ==
    << "CloseObject", "DropObject", "MoveAhead", "MoveBack", "MoveLeft",
       "MoveRight", "OpenObject", "Pass", "PickupObject", "PullObject",
       "PushObject", "PutObject", "RotateLook", "ThrowObject" >>

GRID_SIZE == 10
MAX_MOVE_DISTANCE == 50
MAX_BABY_FORCE == 2500
MAX_REACH_DISTANCE == 100

DEFAULT_HORIZON == 0
DEFAULT_ROTATION == 0
DEFAULT_FORCE == 50
DEFAULT_AMOUNT == 50
DEFAULT_DIRECTION == 0
DEFAULT_OBJECT_MOVE_AMOUNT == 100

MAX_HORIZON == 18000
MIN_HORIZON == -18000
MAX_FORCE == 100
MIN_FORCE == 0
MAX_AMOUNT == 100
MIN_AMOUNT == 0

ROTATION_KEY == "rotation"
HORIZON_KEY == "horizon"
FORCE_KEY == "force"
AMOUNT_KEY == "amount"
OBJECT_DIRECTION_X_KEY == "objectDirectionX"
OBJECT_DIRECTION_Y_KEY == "objectDirectionY"
OBJECT_DIRECTION_Z_KEY == "objectDirectionZ"
RECEPTACLE_DIRECTION_X == "receptacleObjectDirectionX"
RECEPTACLE_DIRECTION_Y == "receptacleObjectDirectionY"
RECEPTACLE_DIRECTION_Z == "receptacleObjectDirectionZ"

FORCE_ACTIONS == {"ThrowObject", "PushObject", "PullObject"}
OBJECT_MOVE_ACTIONS == {"CloseObject", "OpenObject"}
MOVE_ACTIONS == {"MoveAhead", "MoveLeft", "MoveRight", "MoveBack"}

(***************************************************************************)
(* MCS_Util (not part of the source at hand): modelled from the            *)
(* specification's sections 4.1 and 4.5.                                   *)
(***************************************************************************)
\* is_number(value, label): whether value is numeric.
is_number(value) == value.t = "num"

\* is_in_range(value, min, max, default, label): value when min <= value <= max,
\* else default.
is_in_range(value, min_value, max_value, default_value) ==
    IF value < min_value \/ value > max_value THEN default_value ELSE value

\* input_to_action_and_params(input): "Name, k=v, ..." split into the name and
\* the keyword map.  The string is the record [name, comma, inline].
input_to_action_and_params(action) == << action.name, action.inline >>

(***************************************************************************)
(* validate_and_convert_params, lines 139-235 (enable_noise = False).      *)
(***************************************************************************)
\* kwargs.get(key, default)
Get(kwargs, key, default) ==
    IF key \in DOMAIN kwargs THEN kwargs[key] ELSE default

\* The product of two floats (both in hundredths).
Mul(a, b) == (a * b) \div 100

\* Lines 154-158, 167-188: a parameter that is not a number becomes its default.
number_or_default(value, default) ==
    IF ~is_number(value) THEN default ELSE value.v

\* The amount's type check with one default for every action.
AmountOrDefaultNoClass(action, amount) ==
    IF ~is_number(amount) THEN DEFAULT_AMOUNT ELSE amount.v

\* Lines 160-165: the default of an amount that is not a number depends on the
\* action.
amount_or_default(action, amount) ==
    IF ~is_number(amount)
    THEN IF action \in OBJECT_MOVE_ACTIONS
         THEN DEFAULT_OBJECT_MOVE_AMOUNT
         ELSE DEFAULT_AMOUNT
    ELSE amount.v

\* Lines 141-194: the local variables after the type and range checks.
validated_locals(action, kwargs) ==
    LET rotation == Get(kwargs, ROTATION_KEY, NumV(DEFAULT_ROTATION))
        horizon == Get(kwargs, HORIZON_KEY, NumV(DEFAULT_HORIZON))
        amount == Get(kwargs, AMOUNT_KEY, NumV(DEFAULT_AMOUNT))
        force == Get(kwargs, FORCE_KEY, NumV(DEFAULT_FORCE))
        dir(key) == number_or_default(Get(kwargs, key, NumV(DEFAULT_DIRECTION)),
                                      DEFAULT_DIRECTION)
    IN  [ rotation |-> number_or_default(rotation, DEFAULT_ROTATION),
          horizon |-> is_in_range(number_or_default(horizon, DEFAULT_HORIZON),
                                  MIN_HORIZON, MAX_HORIZON, DEFAULT_HORIZON),
          amount |-> is_in_range(amount_or_default(action, amount),
                                 MIN_AMOUNT, MAX_AMOUNT, DEFAULT_AMOUNT),
          force |-> is_in_range(number_or_default(force, DEFAULT_FORCE),
                                MIN_FORCE, MAX_FORCE, DEFAULT_FORCE),
          objectDirectionX |-> dir(OBJECT_DIRECTION_X_KEY),
          objectDirectionY |-> dir(OBJECT_DIRECTION_Y_KEY),
          objectDirectionZ |-> dir(OBJECT_DIRECTION_Z_KEY),
          receptacleObjectDirectionX |-> dir(RECEPTACLE_DIRECTION_X),
          receptacleObjectDirectionY |-> dir(RECEPTACLE_DIRECTION_Y),
          receptacleObjectDirectionZ |-> dir(RECEPTACLE_DIRECTION_Z) ]

\* The move magnitude with a movement's amount not scaled by the move distance.
MoveMagnitudeUnscaled(action, amount, force) ==
    IF action \in FORCE_ACTIONS THEN Mul(force, MAX_BABY_FORCE)
    ELSE IF action \in OBJECT_MOVE_ACTIONS \cup MOVE_ACTIONS THEN amount
    ELSE MAX_MOVE_DISTANCE

\* Lines 140, 198-206: three successive ifs, the last one that applies wins.
move_magnitude(action, amount, force) ==
    LET m0 == MAX_MOVE_DISTANCE
        m1 == IF action \in FORCE_ACTIONS THEN Mul(force, MAX_BABY_FORCE) ELSE m0
        m2 == IF action \in OBJECT_MOVE_ACTIONS THEN amount ELSE m1
    IN  IF action \in MOVE_ACTIONS THEN Mul(amount, MAX_MOVE_DISTANCE) ELSE m2

\* Lines 214-235: the returned dict.
validate_and_convert_params(action, kwargs) ==
    LET l == validated_locals(action, kwargs)
    IN  [ objectId |-> Get(kwargs, "objectId", NoneV),
          receptacleObjectId |-> Get(kwargs, "receptacleObjectId", NoneV),
          rotation |-> [y |-> l.rotation],
          horizon |-> l.horizon,
          moveMagnitude |-> move_magnitude(action, l.amount, l.force),
          objectDirection |-> [ x |-> l.objectDirectionX,
                                y |-> l.objectDirectionY,
                                z |-> l.objectDirectionZ ],
          receptacleObjectDirection |-> [ x |-> l.receptacleObjectDirectionX,
                                          y |-> l.receptacleObjectDirectionY,
                                          z |-> l.receptacleObjectDirectionZ ] ]

(***************************************************************************)
(* mcs_action_to_ai2thor_action, lines 267-284.                            *)
(***************************************************************************)
mcs_action_to_ai2thor_action(action) ==
    IF action = "CloseObject" THEN "MCSCloseObject"
    ELSE IF action = "DropObject" THEN "DropHandObject"
    ELSE IF action = "OpenObject" THEN "MCSOpenObject"
    ELSE action

(***************************************************************************)
(* retrieve_action_list, lines 286-292.  Python indexes from 0.            *)
(***************************************************************************)
\* The list looked up without the test that the step's entry is not empty.
RetrieveActionListKeepEmpty(g, step) ==
    IF g /= None /\ g.action_list /= None
    THEN LET l == g.action_list.list
         IN  IF Len(l) > step THEN l[step + 1] ELSE ACTION_LIST
    ELSE ACTION_LIST

retrieve_action_list(g, step) ==
    IF g /= None /\ g.action_list /= None
    THEN LET l == g.action_list.list
         IN  IF Len(l) > step
             THEN IF Len(l[step + 1]) > 0 THEN l[step + 1] ELSE ACTION_LIST
             ELSE ACTION_LIST
    ELSE ACTION_LIST

(***************************************************************************)
(* retrieve_goal, lines 294-304.  A scene configuration is a function      *)
(* whose domain is the keys it holds; so is its goal.  The result is       *)
(* [exc, goal]: exc names the exception raised ("none": the MCS_Goal built *)
(* is goal).  info_list and task_list are read when type_list is present,  *)
(* so a goal holding type_list without one of them raises KeyError.        *)
(***************************************************************************)
goal_config_of(current_scene) ==
    IF "goal" \in DOMAIN current_scene THEN current_scene.goal ELSE EmptyDict

HasKey(goal_config, key) == key \in DOMAIN goal_config

MCS_Goal(action_list, info_list, last_step, task_list, type_list, metadata) ==
    [ action_list |-> action_list, info_list |-> info_list,
      last_step |-> last_step, task_list |-> task_list,
      type_list |-> type_list, metadata |-> metadata ]

retrieve_goal(current_scene) ==
    LET goal_config == goal_config_of(current_scene)
        typed == HasKey(goal_config, "type_list")
    IN  IF typed /\ ~HasKey(goal_config, "info_list")
        THEN [exc |-> "KeyError", goal |-> None]
        ELSE IF typed /\ ~HasKey(goal_config, "task_list")
        THEN [exc |-> "KeyError", goal |-> None]
        ELSE [ exc |-> "none",
               goal |-> MCS_Goal(
                   IF HasKey(goal_config, "action_list")
                       THEN List(goal_config.action_list) ELSE None,
                   IF typed THEN goal_config.info_list ELSE << >>,
                   IF HasKey(goal_config, "last_step")
                       THEN Some(goal_config.last_step) ELSE None,
                   IF typed THEN goal_config.task_list ELSE << >>,
                   IF typed THEN goal_config.type_list ELSE << >>,
                   IF HasKey(goal_config, "metadata")
                       THEN goal_config.metadata ELSE {}) ]

(***************************************************************************)
(* retrieve_return_status, lines 339-349.  The simulator's metadata is a   *)
(* function whose domain is the keys it holds; lastActionStatus, when      *)
(* present, is [t, s, v]: a string s, a number v or None.                  *)
(***************************************************************************)
\* MCS_Return_Status's names (the enum is not part of the source at hand).
MCS_Return_Status == {"SUCCESSFUL", "FAILED", "OBSTRUCTED", "UNDEFINED"}

StatusStr(s) == [t |-> "str", s |-> s, v |-> 0]
StatusNum(n) == [t |-> "num", s |-> "", v |-> n]
StatusNone == [t |-> "none", s |-> "", v |-> 0]

\* Python's truth value of a string, a number or None.
Truthy(x) ==
    IF x.t = "none" THEN FALSE
    ELSE IF x.t = "str" THEN x.s /= ""
    ELSE x.v /= 0

\* Lines 343-345, the try block: [exc, value], value being return_status.
status_try(metadata) ==
    IF "lastActionStatus" \notin DOMAIN metadata
    THEN [exc |-> "KeyError", value |-> "UNDEFINED"]
    ELSE LET status == metadata.lastActionStatus
         IN  IF ~Truthy(status)
             THEN [exc |-> "none", value |-> "UNDEFINED"]
             ELSE IF status.t = "str" /\ status.s \in MCS_Return_Status
             THEN [exc |-> "none", value |-> status.s]
             ELSE [exc |-> "KeyError", value |-> "UNDEFINED"]

\* Lines 346-347, the handler of KeyError: building its message reads the key
\* again (KeyError when it is absent) and concatenates it to a string
\* (TypeError when it is not a string).
status_except(metadata, r) ==
    IF r.exc /= "KeyError" THEN r
    ELSE IF "lastActionStatus" \notin DOMAIN metadata
    THEN [exc |-> "KeyError", value |-> r.value]
    ELSE IF metadata.lastActionStatus.t /= "str"
    THEN [exc |-> "TypeError", value |-> r.value]
    ELSE [exc |-> "none", value |-> r.value]

\* A finally block that does not return: a pending exception goes on.
StatusFinallyNoReturn(r) == r

\* Lines 348-349: the return in the finally block discards a pending exception.
status_finally(r) == [exc |-> "none", value |-> r.value]

retrieve_return_status(metadata) ==
    status_finally(status_except(metadata, status_try(metadata)))

\* Line 307.
retrieve_head_tilt(metadata) == metadata.agent.cameraHorizon

\* Lines 404-422: the step data given to the simulator.
wrap_step(kwargs) ==
    [ continuous |-> TRUE, gridSize |-> GRID_SIZE, logs |-> TRUE,
      renderDepthImage |-> TRUE, renderObjectImage |-> TRUE,
      visibilityDistance |-> MAX_REACH_DISTANCE ] @@ kwargs

(***************************************************************************)
(* Bounds and inputs.                                                      *)
(***************************************************************************)
\* The largest last_step a scene configuration gives.
MaxLastStep == 2
\* The step counter is capped: no step is accepted once it has reached MaxSteps.
MaxSteps == 4
\* The most keywords a checked call of validate_and_convert_params is given.
MaxSupplied == 2

LastSteps == 1 .. MaxLastStep

\* The value a goal configuration holds under each key.
GoalValue(key, n) ==
    CASE key = "action_list" -> << <<"Pass">>, << >>, <<"MoveAhead", "Pass">> >>
      [] key = "info_list" -> <<"ball">>
      [] key = "last_step" -> n
      [] key = "task_list" -> <<"retrieve">>
      [] key = "type_list" -> <<"interaction">>
      [] key = "metadata" -> {<<"target", "ball">>}

GoalKeys ==
    {"action_list", "info_list", "last_step", "task_list", "type_list", "metadata"}

GoalConfig(S, n) == [k \in S |-> GoalValue(k, n)]

\* Every goal object: any subset of the keys.
GoalConfigs ==
    {GoalConfig(S, n) : S \in SUBSET GoalKeys, n \in LastSteps}

\* Every scene configuration; name is the one the loader gives it (section 6).
SceneConfigs ==
    {[name |-> "scene"]} \cup {[name |-> "scene", goal |-> g] : g \in GoalConfigs}

\* The goal objects of the scenes the controller is run on.
PlayedKeySets ==
    { {}, {"last_step"}, {"last_step", "action_list"}, {"type_list"},
      {"info_list"}, GoalKeys }

PlayedConfigs ==
    {[name |-> "scene"]} \cup
    {[name |-> "scene", goal |-> GoalConfig(S, n)] :
        S \in PlayedKeySets, n \in LastSteps}

\* The values a caller gives each keyword.
KeywordValues(key) ==
    CASE key = ROTATION_KEY -> {NumV(4500), StrV}
      [] key = HORIZON_KEY ->
            {NumV(1500), NumV(18000), NumV(-18000), NumV(18100), NumV(-18100), StrV}
      [] key = AMOUNT_KEY ->
            {NumV(0), NumV(30), NumV(100), NumV(150), NumV(-50), StrV, NoneV}
      [] key = FORCE_KEY ->
            {NumV(0), NumV(20), NumV(100), NumV(150), NumV(-50), StrV}
      [] key \in {"objectId", "receptacleObjectId"} -> {StrV}
      [] OTHER -> {NumV(100), StrV}

NumericKeys ==
    { ROTATION_KEY, HORIZON_KEY, AMOUNT_KEY, FORCE_KEY,
      OBJECT_DIRECTION_X_KEY, OBJECT_DIRECTION_Y_KEY, OBJECT_DIRECTION_Z_KEY,
      RECEPTACLE_DIRECTION_X, RECEPTACLE_DIRECTION_Y, RECEPTACLE_DIRECTION_Z }

Keywords == NumericKeys \cup {"objectId", "receptacleObjectId"}

AllKeywordValues == UNION {KeywordValues(k) : k \in Keywords}

\* Every keyword map of at most MaxSupplied keywords.
KwargsInputs ==
    UNION { {kw \in [S -> AllKeywordValues] : \A k \in S : kw[k] \in KeywordValues(k)} :
            S \in {T \in SUBSET Keywords : Cardinality(T) <= MaxSupplied} }

\* An action string: its name, whether it holds a comma, and the keywords that
\* follow the first comma.
Plain(name) == [name |-> name, comma |-> FALSE, inline |-> EmptyDict]
Inline(name, kw) == [name |-> name, comma |-> TRUE, inline |-> kw]

ActionNames == Range(ACTION_LIST) \cup {"Fly"}

\* The calls of step the controller is run on.
StepInputs ==
    {[action |-> Plain(a), kwargs |-> EmptyDict] : a \in ActionNames} \cup
    { [action |-> Plain("OpenObject"), kwargs |-> [amount |-> NumV(30)]],
      [action |-> Plain("CloseObject"), kwargs |-> [amount |-> StrV]],
      [action |-> Plain("MoveAhead"), kwargs |-> [amount |-> NumV(100)]],
      [action |-> Plain("MoveBack"), kwargs |-> [amount |-> NumV(150)]],
      [action |-> Plain("PushObject"),
       kwargs |-> [force |-> NumV(100), objectId |-> StrV]],
      [action |-> Plain("RotateLook"),
       kwargs |-> [rotation |-> NumV(4500), horizon |-> NumV(1500)]],
      [action |-> Inline("RotateLook", [rotation |-> NumV(4500), horizon |-> NumV(1500)]),
       kwargs |-> EmptyDict],
      [action |-> Inline("Fly", [rotation |-> NumV(4500)]), kwargs |-> EmptyDict],
      [action |-> Plain("Fly"), kwargs |-> [amount |-> NumV(100)]] }

\* The metadata of a scene event.
Metadata(horizon) == [agent |-> [cameraHorizon |-> horizon]]
MetadataWith(horizon, status) ==
    [agent |-> [cameraHorizon |-> horizon], lastActionStatus |-> status]

StatusInputs ==
    {StatusStr(s) : s \in MCS_Return_Status \cup {"SUCCESS", "", "successful"}}
    \cup {StatusNone, StatusNum(0), StatusNum(5)}

MetadataInputs ==
    {Metadata(h) : h \in {0, 3000}} \cup
    {MetadataWith(h, st) : h \in {0, 3000}, st \in StatusInputs}

\* What the simulator answers the controller.
SimulatorResponses ==
    { Metadata(0), MetadataWith(3000, StatusStr("SUCCESSFUL")),
      MetadataWith(0, StatusStr("SUCCESS")), MetadataWith(0, StatusNone) }

(***************************************************************************)
(* The controller's state, lines 98-108, and what a caller observes of the *)
(* last public call: the call, what it returned or raised, and the         *)
(* requests it made of the simulator.                                      *)
(***************************************************************************)
VARIABLES debug_to_file, current_scene, head_tilt, output_folder, step_number,
          goal, call, ret, sim_log, job, out

controller ==
    << debug_to_file, current_scene, head_tilt, output_folder, step_number,
       goal, call, ret, sim_log >>
vars ==
    << debug_to_file, current_scene, head_tilt, output_folder, step_number,
       goal, call, ret, sim_log, job, out >>

RetNone == [kind |-> "None"]
Raise(e) == [kind |-> "raise", exc |-> e]
Pending == [pending |-> TRUE]

\* on_init, lines 98-108, for each value of debug.
on_init ==
    /\ debug_to_file \in BOOLEAN
    /\ current_scene = None
    /\ head_tilt = 0
    /\ output_folder = None
    /\ step_number = 0
    /\ goal = None
    /\ call = [op |-> "__init__"]
    /\ ret = RetNone
    /\ sim_log = << >>

Init ==
    /\ on_init
    /\ job = None
    /\ out = None

\* wrap_output, lines 368-402: [exc, output]; output is the MCS_Step_Output.
wrap_output(metadata, g, step) ==
    LET status == retrieve_return_status(metadata)
    IN  [ exc |-> status.exc,
          output |-> [ kind |-> "StepOutput",
                       action_list |-> retrieve_action_list(g, step),
                       goal |-> g,
                       head_tilt |-> retrieve_head_tilt(metadata),
                       pose |-> "STAND",
                       return_status |-> status.value,
                       step_number |-> step ] ]

\* What a call that ends in wrap_output returns, and the head tilt it leaves.
Returned(o) == IF o.exc = "none" THEN o.output ELSE Raise(o.exc)
HeadTiltAfter(o) == IF o.exc = "none" THEN o.output.head_tilt ELSE head_tilt

\* start_scene, lines 117-131.
start_scene(config_data, metadata) ==
    LET g == retrieve_goal(config_data)
        o == wrap_output(metadata, g.goal, 0)
    IN  /\ call' = [op |-> "start_scene", config |-> config_data]
        /\ current_scene' = config_data
        /\ step_number' = 0
        /\ IF g.exc /= "none"
           THEN /\ ret' = Raise(g.exc)
                /\ sim_log' = << >>
                /\ UNCHANGED << goal, output_folder, head_tilt >>
           ELSE /\ goal' = g.goal
                /\ output_folder' =
                       IF debug_to_file THEN [folder |-> config_data.name]
                       ELSE output_folder
                /\ sim_log' =
                       << wrap_step([action |-> "Initialize",
                                     sceneConfig |-> config_data]) >>
                /\ ret' = Returned(o)
                /\ head_tilt' = HeadTiltAfter(o)
        /\ UNCHANGED << debug_to_file, job, out >>

\* Line 241: the last-step guard.
past_last_step(g, step) ==
    g.last_step /= None /\ g.last_step.v < step

\* The action passed on as given.
NoExchange(action) == action

\* Lines 249-251: an action that is not in the vocabulary becomes Pass.
known_or_pass(action) ==
    IF action \notin Range(ACTION_LIST) THEN "Pass" ELSE action

\* The step counter left as it is.
NoIncrement(step) == step

\* Line 253.
incremented(step) == step + 1

\* step with the action translated before its parameters are validated.
StepTranslateFirst(input, metadata) ==
    /\ call' = [op |-> "step", action |-> input.action, kwargs |-> input.kwargs]
    /\ IF goal = None
       THEN /\ ret' = Raise("AttributeError")
            /\ sim_log' = << >>
            /\ UNCHANGED << step_number, head_tilt >>
       ELSE IF past_last_step(goal, step_number)
       THEN /\ ret' = RetNone
            /\ sim_log' = << >>
            /\ UNCHANGED << step_number, head_tilt >>
       ELSE LET parsed == IF input.action.comma
                          THEN input_to_action_and_params(input.action)
                          ELSE << input.action.name, input.kwargs >>
                action == known_or_pass(parsed[1])
                number == incremented(step_number)
                native == mcs_action_to_ai2thor_action(action)
                params == validate_and_convert_params(native, parsed[2])
                o == wrap_output(metadata, goal, number)
            IN  /\ step_number < MaxSteps
                /\ step_number' = number
                /\ sim_log' = << wrap_step([action |-> native] @@ params) >>
                /\ ret' = Returned(o)
                /\ head_tilt' = HeadTiltAfter(o)
    /\ UNCHANGED << debug_to_file, current_scene, output_folder, goal, job, out >>

\* step, lines 238-265.
step(input, metadata) ==
    /\ call' = [op |-> "step", action |-> input.action, kwargs |-> input.kwargs]
    /\ IF goal = None
       THEN /\ ret' = Raise("AttributeError")
            /\ sim_log' = << >>
            /\ UNCHANGED << step_number, head_tilt >>
       ELSE IF past_last_step(goal, step_number)
       THEN /\ ret' = RetNone
            /\ sim_log' = << >>
            /\ UNCHANGED << step_number, head_tilt >>
       ELSE LET parsed == IF input.action.comma
                          THEN input_to_action_and_params(input.action)
                          ELSE << input.action.name, input.kwargs >>
                action == known_or_pass(parsed[1])
                number == incremented(step_number)
                params == validate_and_convert_params(action, parsed[2])
                native == mcs_action_to_ai2thor_action(action)
                o == wrap_output(metadata, goal, number)
            IN  /\ step_number < MaxSteps
                /\ step_number' = number
                /\ sim_log' = << wrap_step([action |-> native] @@ params) >>
                /\ ret' = Returned(o)
                /\ head_tilt' = HeadTiltAfter(o)
    /\ UNCHANGED << debug_to_file, current_scene, output_folder, goal, job, out >>

\* end_scene, lines 111-114.
end_scene ==
    /\ call' = [op |-> "end_scene"]
    /\ ret' = RetNone
    /\ sim_log' = << >>
    /\ UNCHANGED << debug_to_file, current_scene, head_tilt, output_folder,
                    step_number, goal, job, out >>

Next ==
    \/ \E input \in StepInputs, metadata \in SimulatorResponses :
           step(input, metadata)
    \/ \E config_data \in PlayedConfigs, metadata \in SimulatorResponses :
           start_scene(config_data, metadata)
    \/ end_scene

Spec == Init /\ [][Next]_vars

(***************************************************************************)
(* The functions on their own: a job is one call of one function, drawn    *)
(* from every input; out is what the call gave.                            *)
(***************************************************************************)
ValidateJobs ==
    {[fn |-> "validate_and_convert_params", action |-> a, kwargs |-> kw] :
        a \in ActionNames, kw \in KwargsInputs}
GoalJobs == {[fn |-> "retrieve_goal", config |-> c] : c \in SceneConfigs}
StatusJobs ==
    {[fn |-> "retrieve_return_status", metadata |-> m] : m \in MetadataInputs}

PureInit ==
    /\ on_init
    /\ job \in ValidateJobs \cup GoalJobs \cup StatusJobs
    /\ out = Pending

apply_validate ==
    /\ job.fn = "validate_and_convert_params"
    /\ out = Pending
    /\ out' = [ locals |-> validated_locals(job.action, job.kwargs),
                payload |-> validate_and_convert_params(job.action, job.kwargs) ]
    /\ UNCHANGED << controller, job >>

apply_retrieve_goal ==
    /\ job.fn = "retrieve_goal"
    /\ out = Pending
    /\ out' = retrieve_goal(job.config)
    /\ UNCHANGED << controller, job >>

apply_retrieve_return_status ==
    /\ job.fn = "retrieve_return_status"
    /\ out = Pending
    /\ out' = retrieve_return_status(job.metadata)
    /\ UNCHANGED << controller, job >>

PureNext ==
    \/ apply_validate
    \/ apply_retrieve_goal
    \/ apply_retrieve_return_status

PureSpec == PureInit /\ [][PureNext]_vars

(***************************************************************************)
(* The claims.                                                             *)
(***************************************************************************)
InScene == goal /= None
Unknown(action) == action.name \notin Range(ACTION_LIST)

\* C1: once the step counter has reached or passed the goal's last_step, a call
\* of step returns None and makes no call of the simulator.
C1_LastStepGuard ==
    [][ ( /\ call'.op = "step"
          /\ InScene
          /\ goal.last_step /= None
          /\ step_number >= goal.last_step.v )
        => (ret' = RetNone /\ sim_log' = << >>) ]_vars

\* C2: within a scene every call of step either is accepted, and then the step
\* counter grows by exactly 1, the simulator is called once and the output's
\* step_number is the new counter, or is rejected by the last-step guard, and
\* then the counter and the goal are left as they were.
C2_StepCounter ==
    [][ (call'.op = "step" /\ InScene)
        => /\ ret'.kind \in {"StepOutput", "None"}
           /\ ret'.kind = "StepOutput"
                => /\ step_number' = step_number + 1
                   /\ ret'.step_number = step_number'
                   /\ Len(sim_log') = 1
           /\ ret'.kind = "None"
                => /\ goal.last_step /= None
                   /\ step_number' = step_number
                   /\ goal' = goal
                   /\ sim_log' = << >> ]_vars

\* C2's case: an unknown action, exchanged for Pass, was the second accepted step.
C2_Witness ==
    /\ call.op = "step"
    /\ Unknown(call.action)
    /\ ret.kind = "StepOutput"
    /\ ret.step_number = 2
    /\ step_number = 2

\* C3: a call of step that passes the last-step guard with an action that is not
\* in the vocabulary does not fail; the simulator is called exactly once, and
\* the action it receives is Pass.
C3_UnknownActionIsPass ==
    [][ ( /\ call'.op = "step"
          /\ Unknown(call'.action)
          /\ InScene
          /\ ~(goal.last_step /= None /\ goal.last_step.v < step_number) )
        => /\ ret'.kind = "StepOutput"
           /\ Len(sim_log') = 1
           /\ sim_log'[1].action = "Pass" ]_vars

\* C3's case: step("Fly, rotation=45") was accepted and reached the simulator.
C3_Witness ==
    /\ call.op = "step"
    /\ call.action.name = "Fly"
    /\ call.action.comma
    /\ ret.kind = "StepOutput"
    /\ Len(sim_log) = 1
    /\ sim_log[1].action = "Pass"

\* C4: every call of start_scene resets the step counter to 0, replaces the goal
\* by the one of the new configuration, makes exactly one Initialize call of the
\* simulator and returns an output whose step_number is 0.
C4_StartSceneResets ==
    [][ call'.op = "start_scene"
        => /\ step_number' = 0
           /\ ret'.kind = "StepOutput"
           /\ ret'.step_number = 0
           /\ Len(sim_log') = 1
           /\ sim_log'[1].action = "Initialize"
           /\ goal' /= None
           /\ goal'.last_step =
                  IF "goal" \in DOMAIN call'.config
                     /\ "last_step" \in DOMAIN call'.config.goal
                  THEN Some(call'.config.goal.last_step)
                  ELSE None ]_vars

\* C10: no call of start_scene, step or end_scene raises, whatever the order of
\* the calls.
C10_NeverRaises == ret.kind /= "raise"

Validated == job.fn = "validate_and_convert_params" /\ out /= Pending
Supplied(key) == key \in DOMAIN job.kwargs

\* C5: with no amount given, the amount is 1 for OpenObject and CloseObject
\* (moveMagnitude 1) and 0.5 for the four Move actions (moveMagnitude 0.25).
C5_DefaultAmount ==
    (Validated /\ ~Supplied(AMOUNT_KEY))
    => /\ job.action \in {"OpenObject", "CloseObject"}
            => out.locals.amount = 100 /\ out.payload.moveMagnitude = 100
       /\ job.action \in {"MoveAhead", "MoveLeft", "MoveRight", "MoveBack"}
            => out.locals.amount = 50 /\ out.payload.moveMagnitude = 25

\* What C6 gives for a number v with range [lo, hi] and default d.
InRangeOrDefault(v, lo, hi, d) == IF lo <= v /\ v <= hi THEN v ELSE d
NumberSupplied(key) == Supplied(key) /\ job.kwargs[key].t = "num"

\* C6: a number given for horizon outside [-180, 180], for amount outside [0, 1]
\* or for force outside [0, 1] is replaced by the parameter's default (horizon 0,
\* force 0.5, amount 1 for OpenObject and CloseObject and 0.5 otherwise); a
\* number inside the range, bounds included, is kept.
C6_ClampToDefault ==
    Validated
    => /\ NumberSupplied(HORIZON_KEY)
            => out.locals.horizon =
                   InRangeOrDefault(job.kwargs[HORIZON_KEY].v, -18000, 18000, 0)
       /\ NumberSupplied(FORCE_KEY)
            => out.locals.force =
                   InRangeOrDefault(job.kwargs[FORCE_KEY].v, 0, 100, 50)
       /\ NumberSupplied(AMOUNT_KEY)
            => out.locals.amount =
                   InRangeOrDefault(job.kwargs[AMOUNT_KEY].v, 0, 100,
                       IF job.action \in {"OpenObject", "CloseObject"}
                       THEN 100 ELSE 50)

Without(kwargs, key) == [k \in DOMAIN kwargs \ {key} |-> kwargs[k]]
NotANumber(key) == Supplied(key) /\ job.kwargs[key].t /= "num"
DirectionKeys ==
    { "objectDirectionX", "objectDirectionY", "objectDirectionZ",
      "receptacleObjectDirectionX", "receptacleObjectDirectionY",
      "receptacleObjectDirectionZ" }
LocalNames == {"rotation", "horizon", "amount", "force"} \cup DirectionKeys

\* C7: a value that is not a number, given for rotation, horizon, amount, force
\* or one of the six directions, yields that parameter's default (rotation 0,
\* horizon 0, force 0.5, directions 0, amount 1 for OpenObject and CloseObject
\* and 0.5 otherwise), and every other parameter is normalized as it is without
\* that keyword.
C7_TypeCheckDefaults ==
    Validated
    => /\ NotANumber("rotation")
            => out.locals.rotation = 0 /\ out.payload.rotation.y = 0
       /\ NotANumber("horizon")
            => out.locals.horizon = 0 /\ out.payload.horizon = 0
       /\ NotANumber("force")
            => /\ out.locals.force = 50
               /\ job.action \in {"ThrowObject", "PushObject", "PullObject"}
                    => out.payload.moveMagnitude = 1250
       /\ NotANumber("amount")
            => IF job.action \in {"OpenObject", "CloseObject"}
               THEN out.locals.amount = 100 /\ out.payload.moveMagnitude = 100
               ELSE /\ out.locals.amount = 50
                    /\ job.action \in {"MoveAhead", "MoveLeft", "MoveRight", "MoveBack"}
                         => out.payload.moveMagnitude = 25
       /\ \A key \in DirectionKeys : NotANumber(key) => out.locals[key] = 0
       /\ NotANumber("objectDirectionX") => out.payload.objectDirection.x = 0
       /\ NotANumber("objectDirectionY") => out.payload.objectDirection.y = 0
       /\ NotANumber("objectDirectionZ") => out.payload.objectDirection.z = 0
       /\ NotANumber("receptacleObjectDirectionX")
            => out.payload.receptacleObjectDirection.x = 0
       /\ NotANumber("receptacleObjectDirectionY")
            => out.payload.receptacleObjectDirection.y = 0
       /\ NotANumber("receptacleObjectDirectionZ")
            => out.payload.receptacleObjectDirection.z = 0
       /\ \A key \in LocalNames :
            NotANumber(key)
            => LET rest == validated_locals(job.action, Without(job.kwargs, key))
               IN  \A other \in LocalNames \ {key} :
                       out.locals[other] = rest[other]

\* C7's case: OpenObject with an amount and a force that are not numbers.
C7_Witness ==
    /\ Validated
    /\ job.action = "OpenObject"
    /\ NotANumber("amount")
    /\ NotANumber("force")
    /\ out.payload.moveMagnitude = 100

StatusDone == job.fn = "retrieve_return_status" /\ out /= Pending
NamesAStatus(metadata) ==
    /\ "lastActionStatus" \in DOMAIN metadata
    /\ metadata.lastActionStatus.t = "str"
    /\ metadata.lastActionStatus.s \in {"SUCCESSFUL", "FAILED", "OBSTRUCTED", "UNDEFINED"}

\* C8: retrieve_return_status returns the status' name when lastActionStatus
\* names a member of the enum, and "UNDEFINED" when it is absent, None, empty or
\* anything else; no exception reaches the caller.
C8_ReturnStatus ==
    StatusDone
    => /\ out.exc = "none"
       /\ out.value = IF NamesAStatus(job.metadata)
                      THEN job.metadata.lastActionStatus.s
                      ELSE "UNDEFINED"

\* C8's case: the metadata holds no lastActionStatus, and the call returned.
C8_Witness ==
    /\ StatusDone
    /\ "lastActionStatus" \notin DOMAIN job.metadata
    /\ out = [exc |-> "none", value |-> "UNDEFINED"]

GoalDone == job.fn = "retrieve_goal" /\ out /= Pending
Configured(key) ==
    "goal" \in DOMAIN job.config /\ key \in DOMAIN job.config.goal

\* C9: for a configuration without goal, or whose goal holds any subset of the
\* six keys, retrieve_goal returns a goal without raising: a key that is present
\* gives the configured value, an absent one its default (empty list, None for
\* last_step, empty mapping for metadata).
C9_GoalDefaults ==
    GoalDone
    => /\ out.exc = "none"
       /\ \A key \in {"info_list", "task_list", "type_list"} :
            out.goal[key] =
                IF Configured(key) THEN job.config.goal[key] ELSE << >>
       /\ out.goal.last_step =
            IF Configured("last_step") THEN Some(job.config.goal.last_step) ELSE None
       /\ out.goal.metadata =
            IF Configured("metadata") THEN job.config.goal.metadata ELSE {}
       /\ IF Configured("action_list")
          THEN out.goal.action_list = List(job.config.goal.action_list)
          ELSE out.goal.action_list \in {None, List(<< >>)}

ForceClass == {"ThrowObject", "PushObject", "PullObject"}
OpenCloseClass == {"OpenObject", "CloseObject"}
MoveClass == {"MoveAhead", "MoveLeft", "MoveRight", "MoveBack"}

\* C11: with noise disabled the payload's moveMagnitude is force * 25 for
\* ThrowObject, PushObject and PullObject, the amount itself for OpenObject and
\* CloseObject, amount * 0.5 for the four Move actions and 0.5 for every other
\* action, force and amount being the validated ones; the three classes are
\* disjoint, so exactly one rule applies.
C11_MoveMagnitude ==
    Validated
    => /\ job.action \in ForceClass
            => out.payload.moveMagnitude = out.locals.force * 25
       /\ job.action \in OpenCloseClass
            => out.payload.moveMagnitude = out.locals.amount
       /\ job.action \in MoveClass
            => out.payload.moveMagnitude * 2 = out.locals.amount
       /\ job.action \notin ForceClass \cup OpenCloseClass \cup MoveClass
            => out.payload.moveMagnitude = 50
       /\ Cardinality({c \in {FORCE_ACTIONS, OBJECT_MOVE_ACTIONS, MOVE_ACTIONS} :
                          job.action \in c}) <= 1
       /\ FORCE_ACTIONS = ForceClass
       /\ OBJECT_MOVE_ACTIONS = OpenCloseClass
       /\ MOVE_ACTIONS = MoveClass

\* C11's case: MoveBack with an amount of 0.3 and a force of 1 moves by 0.15.
C11_Witness ==
    /\ Validated
    /\ job.action = "MoveBack"
    /\ NumberSupplied(AMOUNT_KEY) /\ job.kwargs[AMOUNT_KEY].v = 30
    /\ NumberSupplied(FORCE_KEY) /\ job.kwargs[FORCE_KEY].v = 100
    /\ out.payload.moveMagnitude = 15

(***************************************************************************)
(* retrieve_action_list on its own, beside the controller: either the      *)
(* controller is run (no job), or one call of retrieve_action_list is made *)
(* on a goal and a step index drawn from every input.                      *)
(***************************************************************************)
ActionListInputs ==
    { << >>, << << >> >>, << <<"Pass">>, << >>, <<"MoveAhead", "Pass">> >> }

GoalInputs ==
    {None} \cup
    {MCS_Goal(al, << >>, None, << >>, << >>, {}) :
        al \in {None} \cup {List(l) : l \in ActionListInputs}}

ActionListJobs ==
    {[fn |-> "retrieve_action_list", goal |-> g, step |-> s] :
        g \in GoalInputs, s \in 0 .. MaxSteps}

ActionListInit ==
    /\ on_init
    /\ \/ job = None /\ out = None
       \/ job \in ActionListJobs /\ out = Pending

apply_retrieve_action_list ==
    /\ job /= None
    /\ job.fn = "retrieve_action_list"
    /\ out = Pending
    /\ out' = List(retrieve_action_list(job.goal, job.step))
    /\ UNCHANGED << controller, job >>

ActionListNext ==
    \/ job = None /\ Next
    \/ apply_retrieve_action_list

ActionListSpec == ActionListInit /\ [][ActionListNext]_vars

\* What C12 gives for goal g at step index s (s counts from 0).
FullVocabulary ==
    << "CloseObject", "DropObject", "MoveAhead", "MoveBack", "MoveLeft",
       "MoveRight", "OpenObject", "Pass", "PickupObject", "PullObject",
       "PushObject", "PutObject", "RotateLook", "ThrowObject" >>
HasEntry(g, s) ==
    /\ g /= None
    /\ g.action_list /= None
    /\ s < Len(g.action_list.list)
    /\ g.action_list.list[s + 1] /= << >>
PermittedAt(g, s) ==
    IF HasEntry(g, s) THEN g.action_list.list[s + 1] ELSE FullVocabulary

\* C12: retrieve_action_list returns goal.action_list[s] when the goal has an
\* action_list with a non-empty entry at index s, and the full vocabulary in
\* every other case (no goal, no action_list, s beyond the end, an empty entry);
\* the action_list of a StepOutput is the one at the step counter as it is when
\* the output is built: 0 for start_scene, the incremented counter for step.
C12_ActionList ==
    /\ (job /= None /\ out /= Pending)
            => out = List(PermittedAt(job.goal, job.step))
    /\ ret.kind = "StepOutput"
            => /\ ret.step_number = step_number
               /\ ret.action_list = PermittedAt(goal, step_number)
               /\ call.op = "start_scene" => step_number = 0
               /\ call.op = "step" => step_number >= 1

\* C12's case: the second accepted step of a scene whose action_list has three
\* entries returned the third entry.
C12_Witness ==
    /\ call.op = "step"
    /\ ret.kind = "StepOutput"
    /\ step_number = 2
    /\ goal.action_list /= None
    /\ Len(goal.action_list.list) = 3
    /\ ret.action_list = <<"MoveAhead", "Pass">>

\* The identifier a call of step acts on, and the keywords it is given.
AbstractAction(a) == IF Unknown(a) THEN "Pass" ELSE a.name
KeywordsGiven(c) == IF c.action.comma THEN c.action.inline ELSE c.kwargs

\* The simulator's name of an identifier, as C13 gives it.
NativeName(action) ==
    CASE action = "CloseObject" -> "MCSCloseObject"
      [] action = "DropObject" -> "DropHandObject"
      [] action = "OpenObject" -> "MCSOpenObject"
      [] OTHER -> action

\* The keys of the dict validate_and_convert_params returns.
PayloadFields ==
    { "objectId", "receptacleObjectId", "rotation", "horizon", "moveMagnitude",
      "objectDirection", "receptacleObjectDirection" }

\* The amount of an OpenObject or CloseObject as the code validates it.
OpenCloseAmount(kw) ==
    IF AMOUNT_KEY \notin DOMAIN kw THEN 50
    ELSE IF kw[AMOUNT_KEY].t /= "num" THEN 100
    ELSE InRangeOrDefault(kw[AMOUNT_KEY].v, 0, 100, 50)

\* C13: in every accepted step the parameters sent to the simulator are those
\* normalized for the abstract identifier, and the name sent is its translation:
\* the identity but for CloseObject, DropObject and OpenObject.  So OpenObject
\* and CloseObject arrive under their MCS names with moveMagnitude the amount
\* itself, and translating the name sent again leaves it as it is.
C13_TranslateAfterNormalize ==
    [][ (call'.op = "step" /\ ret'.kind = "StepOutput")
        => LET abstract == AbstractAction(call'.action)
               kw == KeywordsGiven(call')
               sent == sim_log'[1]
               params == validate_and_convert_params(abstract, kw)
           IN  /\ sent.action = NativeName(abstract)
               /\ [field \in PayloadFields |-> sent[field]] = params
               /\ abstract \in OpenCloseClass
                    => /\ sent.action \in {"MCSOpenObject", "MCSCloseObject"}
                       /\ sent.moveMagnitude = OpenCloseAmount(kw)
               /\ abstract \notin {"CloseObject", "DropObject", "OpenObject"}
                    => sent.action = abstract
               /\ mcs_action_to_ai2thor_action(sent.action) = sent.action ]_vars

\* C13's case: OpenObject with an amount of 0.3 reached the simulator as
\* MCSOpenObject with moveMagnitude 0.3.
C13_Witness ==
    /\ call.op = "step"
    /\ call.action.name = "OpenObject"
    /\ AMOUNT_KEY \in DOMAIN call.kwargs
    /\ call.kwargs[AMOUNT_KEY] = NumV(30)
    /\ ret.kind = "StepOutput"
    /\ sim_log[1].action = "MCSOpenObject"
    /\ sim_log[1].moveMagnitude = 30

====
